---------------------------- MODULE Spec2Model ----------------------------
(***************************************************************************)
(* Model of the repeating-key cipher engine (tinker/src/crypto.rs) and of  *)
(* the command surface (tinker/src/main.rs).                               *)
(*                                                                         *)
(* Characters are Unicode code points (integers); a String is a sequence   *)
(* of code points.  Keys are ASCII, so a key's bytes are its characters.   *)
(*                                                                         *)
(* Three specifications share the module:                                  *)
(*   Spec      - one call of encrypt/decrypt, one loop iteration per step, *)
(*               optionally followed by the opposite call on the output;   *)
(*   ShiftSpec - encdec applied forward then backward (or the reverse) to  *)
(*               one letter under one key letter;                          *)
(*   MainSpec  - one run of main over every accepted argument combination. *)
(***************************************************************************)
EXTENDS Integers, Sequences, FiniteSets

VARIABLES
    keyarg,     \* the key as passed to encrypt/decrypt
    key,        \* the key encryptdecrypt receives (keyarg lowercased)
    dec,        \* the direction encryptdecrypt receives
    read,       \* the characters of str the loop has consumed so far
    index,      \* local `index` of encryptdecrypt
    collector,  \* local `collector` of encryptdecrypt
    status,     \* "running" | "ok" (returned Ok(collector)) | "panic"
    rt,         \* result of the opposite call applied to the Ok output
    sc,         \* ShiftSpec: the letter encdec starts from
    sk,         \* ShiftSpec: the key letter
    sfirst,     \* ShiftSpec: `dec` of the first application
    scur,       \* ShiftSpec: the current character
    sstage,     \* ShiftSpec: number of applications done
    cli,        \* MainSpec: the parsed Args
    mpc,        \* MainSpec: "start" | "done" (Ok(())) | "err" | "panic"
    ops,        \* MainSpec: the operations main has performed, in order
    written,    \* MainSpec: path passed to a successful std::fs::write
    printed     \* MainSpec: whether "Cracked key: .." was printed

cipherVars == <<keyarg, key, dec, read, index, collector, status, rt>>
shiftVars  == <<sc, sk, sfirst, scur, sstage>>
mainVars   == <<cli, mpc, ops, written, printed>>
vars       == <<cipherVars, shiftVars, mainVars>>

---------------------------------------------------------------------------
(* Bounds and program constants                                            *)

\* longest input text explored
MaxTextLen == 6

\* 'a' as i32
LowerA == 97

\* the modulus of encdec
AlphabetSize == 26

\* the modulus applied to `index` in encryptdecrypt
CycleLen == 5

\* u8 range, for `as u8`
ByteRange == 256

---------------------------------------------------------------------------
(* Characters                                                              *)

\* 'y', 'M', ' ' and the non-ASCII, non-alphabetic U+20AC
TextChars == {121, 77, 32, 8364}

LowerLetters == LowerA .. (LowerA + AlphabetSize - 1)
UpperLetters == 65 .. 90

\* char::is_ascii
IsAscii(c) == c <= 127

\* char::is_alphabetic, on the characters the model uses
IsAlphabetic(c) == c \in LowerLetters \/ c \in UpperLetters

\* char::to_ascii_lowercase / u8::to_ascii_lowercase
ToAsciiLowercase(c) == IF c \in UpperLetters THEN c + 32 ELSE c

\* str::to_ascii_lowercase
StrToAsciiLowercase(s) == [n \in 1 .. Len(s) |-> ToAsciiLowercase(s[n])]

\* Rust's `%` on i32: the remainder has the sign of the dividend
RustRem(a, b) == IF a >= 0 THEN a % b ELSE -((-a) % b)

\* `x as u8` for an i32 x: the low eight bits
AsU8(x) == x % ByteRange

---------------------------------------------------------------------------
(* Keys                                                                    *)

\* const key2: &str = "rust"
key2 == <<114, 117, 115, 116>>

\* const key3: &str = "rustiscool"
key3 == <<114, 117, 115, 116, 105, 115, 99, 111, 111, 108>>

\* "", "b", "rust", "CRABS", "rustiscool", "1bcde"
Keys == { <<>>, <<98>>, key2, <<67, 82, 65, 66, 83>>, key3,
          <<49, 98, 99, 100, 101>> }

---------------------------------------------------------------------------
(* crypto.rs                                                               *)

\* encdec with the decrypt branch's wrap of a negative difference left out
encdecNoWrap(c, keychar, d) ==
    IF d
    THEN AsU8((c - LowerA) - (keychar - LowerA) + LowerA)
    ELSE AsU8(RustRem(c - LowerA + (keychar - LowerA), AlphabetSize) + LowerA)

encdec(c, keychar, d) ==
    IF d
    THEN LET cphr0 == c - LowerA
             keychar_i32 == keychar - LowerA
             cphr1 == IF cphr0 - keychar_i32 < 0
                      THEN AlphabetSize + (cphr0 - keychar_i32)
                      ELSE cphr0 - keychar_i32
         IN  AsU8(cphr1 + LowerA)
    ELSE LET c_i32 == c
             keychar_i32 == keychar - LowerA
             cphr == RustRem(c_i32 - LowerA + keychar_i32, AlphabetSize) + LowerA
         IN  AsU8(cphr)

\* the locals of encryptdecrypt before the loop
LoopInit == [index |-> 0, collector |-> <<>>, panicked |-> FALSE]

\* the loop body with `index += 1` moved after the if/else, so that a
\* pass-through character advances the key index too
LoopBodyAdvancesAlways(st, i, keychars, d) ==
    IF IsAlphabetic(i)
    THEN LET c == ToAsciiLowercase(i)
             keyindex == st.index % CycleLen
         IN  IF keyindex >= Len(keychars)
             THEN [st EXCEPT !.panicked = TRUE]
             ELSE [st EXCEPT
                     !.collector = Append(@, encdec(c, keychars[keyindex + 1], d)),
                     !.index = @ + 1]
    ELSE IF IsAscii(i)
         THEN [st EXCEPT !.collector = Append(@, i), !.index = @ + 1]
         ELSE st

\* one iteration of `for i in str.as_str().chars()`; keychars[keyindex]
\* panics when keyindex is not below keychars.len()
LoopBody(st, i, keychars, d) ==
    IF IsAlphabetic(i)
    THEN LET c == ToAsciiLowercase(i)
             keyindex == st.index % CycleLen
         IN  IF keyindex >= Len(keychars)
             THEN [st EXCEPT !.panicked = TRUE]
             ELSE [st EXCEPT
                     !.collector = Append(@, encdec(c, keychars[keyindex + 1], d)),
                     !.index = @ + 1]
    ELSE IF IsAscii(i)
         THEN [st EXCEPT !.collector = Append(@, i)]
         ELSE st

RECURSIVE Loop(_, _, _, _)
Loop(st, str, keychars, d) ==
    IF str = <<>> \/ st.panicked
    THEN st
    ELSE Loop(LoopBody(st, Head(str), keychars, d), Tail(str), keychars, d)

Ok(s) == [tag |-> "Ok", val |-> s]
Panic == [tag |-> "panic", val |-> <<>>]
NoCall == [tag |-> "none", val |-> <<>>]

encryptdecrypt(str, k, d) ==
    LET st == Loop(LoopInit, str, k, d)
    IN  IF st.panicked THEN Panic ELSE Ok(st.collector)

decrypt(encrypted_string, k) ==
    encryptdecrypt(encrypted_string, StrToAsciiLowercase(k), TRUE)

encrypt(plain_string, k) ==
    encryptdecrypt(plain_string, StrToAsciiLowercase(k), FALSE)

---------------------------------------------------------------------------
(* Idle values of the parts a specification does not run                   *)

CipherIdle ==
    /\ keyarg = <<>> /\ key = <<>> /\ dec = FALSE /\ read = <<>>
    /\ index = 0 /\ collector = <<>> /\ status = "idle" /\ rt = NoCall

ShiftIdle ==
    /\ sc = LowerA /\ sk = LowerA /\ sfirst = FALSE /\ scur = LowerA
    /\ sstage = -1

MainIdle ==
    /\ cli = [decrypt1 |-> FALSE, encrypt1 |-> FALSE, decrypt2 |-> FALSE,
              encrypt2 |-> FALSE, outfile |-> [some |-> FALSE, val |-> <<>>],
              key1 |-> [some |-> FALSE, val |-> <<>>],
              key2 |-> [some |-> FALSE, val |-> <<>>], nul |-> FALSE]
    /\ mpc = "idle" /\ ops = <<>> /\ written = "none" /\ printed = FALSE

---------------------------------------------------------------------------
(* Spec: one call of encrypt or decrypt                                    *)

\* encrypt(text, k) or decrypt(text, k) has been entered: the key is
\* lowercased and the locals of encryptdecrypt are initialised
Init ==
    /\ keyarg \in Keys
    /\ key = StrToAsciiLowercase(keyarg)
    /\ dec \in BOOLEAN
    /\ read = <<>>
    /\ index = LoopInit.index
    /\ collector = LoopInit.collector
    /\ status = "running"
    /\ rt = NoCall
    /\ ShiftIdle
    /\ MainIdle

\* the iterator yields a next character i and the loop body runs on it
Step ==
    /\ status = "running"
    /\ Len(read) < MaxTextLen
    /\ \E i \in TextChars :
        LET st == LoopBody([index |-> index, collector |-> collector,
                            panicked |-> FALSE], i, key, dec)
        IN  /\ read' = Append(read, i)
            /\ index' = st.index
            /\ collector' = st.collector
            /\ status' = IF st.panicked THEN "panic" ELSE "running"
    /\ UNCHANGED <<keyarg, key, dec, rt, shiftVars, mainVars>>

\* the iterator is exhausted: return Ok(collector.into_iter().collect())
Return ==
    /\ status = "running"
    /\ status' = "ok"
    /\ UNCHANGED <<keyarg, key, dec, read, index, collector, rt,
                   shiftVars, mainVars>>

\* the caller passes the Ok output to the opposite operation, same key
RoundTrip ==
    /\ status = "ok"
    /\ rt = NoCall
    /\ rt' = IF dec THEN encrypt(collector, keyarg)
                    ELSE decrypt(collector, keyarg)
    /\ UNCHANGED <<keyarg, key, dec, read, index, collector, status,
                   shiftVars, mainVars>>

Next == Step \/ Return \/ RoundTrip

Spec == Init /\ [][Next]_vars

---------------------------------------------------------------------------
(* ShiftSpec: encdec applied in one direction, then in the other           *)

ShiftInit ==
    /\ sc \in LowerLetters
    /\ sk \in LowerLetters
    /\ sfirst \in BOOLEAN
    /\ scur = sc
    /\ sstage = 0
    /\ CipherIdle
    /\ MainIdle

ShiftFirst ==
    /\ sstage = 0
    /\ scur' = encdec(scur, sk, sfirst)
    /\ sstage' = 1
    /\ UNCHANGED <<sc, sk, sfirst, cipherVars, mainVars>>

ShiftSecond ==
    /\ sstage = 1
    /\ scur' = encdec(scur, sk, ~sfirst)
    /\ sstage' = 2
    /\ UNCHANGED <<sc, sk, sfirst, cipherVars, mainVars>>

ShiftNext == ShiftFirst \/ ShiftSecond

ShiftSpec == ShiftInit /\ [][ShiftNext]_vars

---------------------------------------------------------------------------
(* main.rs                                                                 *)

\* the length parse_key demands
KeyArgLen == 5

parse_key(s) == [ok |-> Len(s) = KeyArgLen, val |-> s]

None == [some |-> FALSE, val |-> <<>>]
Some(v) == [some |-> TRUE, val |-> v]

\* the values clap can leave in key1 / key2: absent, or accepted by parse_key
KeyOptions == {None} \cup {Some(parse_key(k).val) : k \in {x \in Keys : parse_key(x).ok}}

\* the values of outfile: absent, or a path (<<1>> stands for the path given)
OutfileOptions == {None, Some(<<1>>)}

\* what Args::parse() accepts: decrypt1 conflicts with encrypt1, decrypt2
\* with encrypt2; file is required and readable; the rest is optional.
\* nul: the file's text holds an interior NUL byte.
Args ==
    { a \in [decrypt1 : BOOLEAN, encrypt1 : BOOLEAN, decrypt2 : BOOLEAN,
             encrypt2 : BOOLEAN, outfile : OutfileOptions,
             key1 : KeyOptions, key2 : KeyOptions, nul : BOOLEAN] :
        /\ ~(a.decrypt1 /\ a.encrypt1)
        /\ ~(a.decrypt2 /\ a.encrypt2) }

MainInit ==
    /\ cli \in Args
    /\ mpc = "start"
    /\ ops = <<>>
    /\ written = "none"
    /\ printed = FALSE
    /\ CipherIdle
    /\ ShiftIdle

\* one encrypt/decrypt branch of main: k.unwrap() panics on None, then
\* CString::new(text).unwrap() in the *_rs wrapper panics on a NUL; the
\* native routine runs; outfile.unwrap_or("out.txt"); std::fs::write(..)?
CipherBranch(op, k) ==
    IF ~k.some \/ cli.nul
    THEN /\ mpc' = "panic"
         /\ UNCHANGED <<ops, written, printed>>
    ELSE /\ ops' = Append(ops, op)
         /\ \E wrote \in BOOLEAN :
              IF wrote
              THEN /\ written' = IF cli.outfile.some THEN "given" ELSE "out.txt"
                   /\ mpc' = "done"
              ELSE /\ written' = written
                   /\ mpc' = "err"
         /\ UNCHANGED printed

MainDecrypt1 ==
    /\ mpc = "start"
    /\ cli.decrypt1
    /\ CipherBranch("decrypt1_rs", cli.key1)
    /\ UNCHANGED <<cli, cipherVars, shiftVars>>

MainEncrypt1 ==
    /\ mpc = "start"
    /\ ~cli.decrypt1 /\ cli.encrypt1
    /\ CipherBranch("encrypt1_rs", cli.key1)
    /\ UNCHANGED <<cli, cipherVars, shiftVars>>

MainDecrypt2 ==
    /\ mpc = "start"
    /\ ~cli.decrypt1 /\ ~cli.encrypt1 /\ cli.decrypt2
    /\ CipherBranch("decrypt2_rs", cli.key2)
    /\ UNCHANGED <<cli, cipherVars, shiftVars>>

MainEncrypt2 ==
    /\ mpc = "start"
    /\ ~cli.decrypt1 /\ ~cli.encrypt1 /\ ~cli.decrypt2 /\ cli.encrypt2
    /\ CipherBranch("encrypt2_rs", cli.key2)
    /\ UNCHANGED <<cli, cipherVars, shiftVars>>

\* let outkey = crack(cli.file)?; println!("Cracked key: {}", outkey)
MainCrack ==
    /\ mpc = "start"
    /\ ~cli.decrypt1 /\ ~cli.encrypt1 /\ ~cli.decrypt2 /\ ~cli.encrypt2
    /\ ops' = Append(ops, "crack")
    /\ \E cracked \in BOOLEAN :
         /\ printed' = cracked
         /\ mpc' = IF cracked THEN "done" ELSE "err"
    /\ UNCHANGED <<cli, written, cipherVars, shiftVars>>

MainNext ==
    MainDecrypt1 \/ MainEncrypt1 \/ MainDecrypt2 \/ MainEncrypt2 \/ MainCrack

MainSpec == MainInit /\ [][MainNext]_vars

---------------------------------------------------------------------------
(* Vocabulary of the properties                                            *)

\* a textual key as the specification defines it: letters, length >= 1
WellFormedKey(k) == Len(k) >= 1 /\ \A n \in 1 .. Len(k) : IsAlphabetic(k[n])

AsciiText(s) == \A n \in 1 .. Len(s) : IsAscii(s[n])

\* fold_case: letters lowercased, every other character untouched
FoldCase(s) == [n \in 1 .. Len(s) |-> ToAsciiLowercase(s[n])]

LettersOf(s) == SelectSeq(s, IsAlphabetic)

NumLetters(s) == Len(LettersOf(s))

\* the characters the loop has completed an iteration on
Processed == IF status = "panic" THEN SubSeq(read, 1, Len(read) - 1) ELSE read

\* a character the loop emits something for
Emits(c) == IsAlphabetic(c) \/ IsAscii(c)

\* out restricted to the positions where txt holds a letter
RECURSIVE AtLetters(_, _)
AtLetters(out, txt) ==
    IF txt = <<>> \/ out = <<>>
    THEN <<>>
    ELSE IF IsAlphabetic(Head(txt))
         THEN <<Head(out)>> \o AtLetters(Tail(out), Tail(txt))
         ELSE AtLetters(Tail(out), Tail(txt))

\* the text transformed with the key length as the repeat length: letter
\* number n (letters counted from 0) shifted by the key character n mod L
KeyLengthCycle(txt, k, d) ==
    [n \in 1 .. Len(txt) |->
        IF IsAlphabetic(txt[n])
        THEN encdec(ToAsciiLowercase(txt[n]),
                    k[(NumLetters(SubSeq(txt, 1, n - 1)) % Len(k)) + 1], d)
        ELSE txt[n]]

---------------------------------------------------------------------------
(* The claims                                                              *)

\* C1 (as claimed): round trip. For every ASCII plaintext P and every
\* well-formed key K (letters, any length L >= 1), encrypt(P, K) returns Ok
\* and decrypt of that output under K returns Ok(fold_case(P)).
C1_RoundTrip ==
    (status \in {"running", "ok", "panic"} /\ ~dec
        /\ WellFormedKey(keyarg) /\ AsciiText(read))
    => /\ status # "panic"
       /\ rt # NoCall => rt = Ok(FoldCase(read))

\* C2 (as claimed): the repeat length is the key length. For a well-formed
\* key of length L and ASCII input, the output of a call that returned Ok is
\* the input with its n-th letter shifted by key character n mod L.
C2_RepeatLengthIsKeyLength ==
    (status = "ok" /\ WellFormedKey(keyarg) /\ AsciiText(read))
    => collector = KeyLengthCycle(read, key, dec)

\* C3 (as claimed): no panic on well-formed input. For every ASCII text and
\* every well-formed key, the call never panics: the key is never indexed at
\* or past its length.
C3_NeverPanics ==
    (WellFormedKey(keyarg) /\ AsciiText(read))
    => /\ status # "panic"
       /\ (status = "running" /\ index > 0) => (index - 1) % CycleLen < Len(key)

\* C4 (as claimed): an empty key is an error value. A call of encrypt or
\* decrypt with the key "" ends by returning the error InvalidKey, never Ok
\* and never a panic.
C4_EmptyKeyIsInvalidKey ==
    (Len(keyarg) = 0 /\ status \in {"ok", "panic", "InvalidKey"})
    => status = "InvalidKey"

\* C5: a non-letter ASCII character is emitted unchanged and does not move
\* the key index. At every point of a call, over the characters processed so
\* far: the output holds one character per emitting input character, each
\* non-letter as it was read; the key index is the number of letters
\* processed; the characters emitted for the letters are exactly what the
\* loop emits for the same letters with the non-letters removed; and a text
\* of non-letter ASCII characters only comes out unchanged with index 0.
C5_NonLetterFrame ==
    status \in {"running", "ok", "panic"}
    => LET p == SelectSeq(Processed, Emits)
       IN  /\ Len(collector) = Len(p)
           /\ \A n \in 1 .. Len(p) : ~IsAlphabetic(p[n]) => collector[n] = p[n]
           /\ index = NumLetters(p)
           /\ AtLetters(collector, p) = Loop(LoopInit, LettersOf(p), key, dec).collector
           /\ (AsciiText(Processed) /\ NumLetters(Processed) = 0)
                => (collector = Processed /\ index = 0)

\* C5 witness: a call returned Ok for an ASCII text in which a non-letter
\* stands between two letters (both letters were shifted), and
\* a non-letter came first.
C5_Witness ==
    /\ status = "ok"
    /\ AsciiText(read)
    /\ index >= 2
    /\ Len(read) >= 4
    /\ ~IsAlphabetic(read[1])
    /\ \E n \in 3 .. Len(read) - 1 :
         /\ ~IsAlphabetic(read[n])
         /\ IsAlphabetic(read[n - 1])
         /\ IsAlphabetic(read[n + 1])

\* C6: shift bijection. For every lowercase letter c and key letter k,
\* encdec in one direction followed by encdec in the other direction gives
\* c back, whichever direction comes first.
C6_ShiftBijection ==
    sstage = 2 => scur = sc

\* C6 witness: both applications done on a pair that wraps around the
\* alphabet: encrypt-then-decrypt with c + shift past 'z'.
C6_Witness ==
    /\ sstage = 2
    /\ ~sfirst
    /\ (sc - LowerA) + (sk - LowerA) >= AlphabetSize
    /\ scur = sc

\* C7 (as claimed, on ASCII input): the transformation is 1:1 on characters.
\* For a well-formed key, a call that has ended has returned an output with
\* exactly as many characters as the input, non-letters at their positions
\* and a lowercase letter wherever the input has a letter.
C7_OneToOne ==
    (status \in {"ok", "panic"} /\ WellFormedKey(keyarg) /\ AsciiText(read))
    => /\ status = "ok"
       /\ Len(collector) = Len(read)
       /\ \A n \in 1 .. Len(read) :
            IF IsAlphabetic(read[n])
            THEN collector[n] \in LowerLetters
            ELSE collector[n] = read[n]

\* C8 (as claimed): exactly one mode runs per invocation. For every accepted
\* argument combination (text without NUL), when main has ended it has
\* performed exactly one of the operations, and that is crack when no mode
\* flag is set.
C8_ExactlyOneMode ==
    (mpc \in {"done", "err", "panic"} /\ ~cli.nul)
    => /\ Len(ops) = 1
       /\ (~cli.decrypt1 /\ ~cli.encrypt1 /\ ~cli.decrypt2 /\ ~cli.encrypt2)
            => ops = <<"crack">>

\* C10 (as claimed): every key position resolves to a shift in 0..25 and
\* every transformed letter is a lowercase letter. For every key the call
\* returns Ok for and ASCII input, each key character used has an offset
\* from 'a' in 0..25 and each letter position of the output holds 'a'..'z'.
C10_ShiftInRange ==
    (status = "ok" /\ AsciiText(read))
    => /\ \A n \in 1 .. Len(read) :
            IsAlphabetic(read[n]) => collector[n] \in LowerLetters
       /\ \A q \in 1 .. Len(key) :
            (q <= index /\ q <= CycleLen)
                => (key[q] - LowerA) \in 0 .. (AlphabetSize - 1)

=============================================================================
